---- MODULE Spec2Model ----
(***************************************************************************)
(* A model of the Obsidian "Proofreader" plugin: the suggestion markup     *)
(* codec (getDiffMarkdown, removeMarkup) and the proofread invocation      *)
(* (proofreadDocument / proofreadText -> generateSuggestions -> provider   *)
(* adapter).                                                               *)
(*                                                                         *)
(* Texts are sequences of characters; a character is a one-element string. *)
(* The regular-expression replacements of the source are modelled by       *)
(* scanners that reproduce JavaScript's String.prototype.replace with a    *)
(* global, left-to-right, non-overlapping match (and "." not matching a    *)
(* line break).  Line numbers in the comments are those of the latest      *)
(* revision of proofread.ts under src/ (src/unnamed/part_002).             *)
(***************************************************************************)
EXTENDS Naturals, Integers, Sequences, FiniteSets, TLC

VARIABLES
    \* ---- codec (getDiffMarkdown / removeMarkup) ----
    diffIn,               \* the Change[] returned by diffWords(oldText, newText)
    diff,                 \* the Change[] after the in-place truncation edit (lines 20-28)
    isOverlength,         \* parameter isOverlength of getDiffMarkdown
    preserveTextInsideQuotes, \* settings.preserveTextInsideQuotes
    textWithSuggestions,  \* result.textWithSuggestions
    changeCount,          \* result.changeCount, in units of one half (JS value = changeCount / 2)
    decoded,              \* the string returned by removeMarkup
    mode,                 \* the mode removeMarkup was called with
    cpc                   \* position of the codec run: "input" | "encoded" | "decoded" | "plain"

VARIABLES
    \* ---- the host (Obsidian) ----
    settings,             \* plugin.settings: llmProvider and what the adapters read
    activeFile,           \* app.workspace.getActiveFile()?.path
    doc,                  \* the text of each file's editor
    sel,                  \* the editor's selection: [from, to] offsets, multi: several selections
    \* ---- one proofread invocation ----
    pc,                   \* "idle" | "awaiting" (the requestUrl call is outstanding) | "done"
    scope,                \* "Document" | "Selection" | "Paragraph"
    oldText,              \* the text sent for revision
    origin,               \* what the command captured: start offset, range, cursor line
    fileBefore,           \* generateSuggestions: fileBefore
    progress,             \* the "is being proofread" notice is on screen
    notices,              \* the notices shown by the invocation (but the progress notice)
    requests,             \* the requestUrl calls made
    response,             \* what came back for the requestUrl call
    result,               \* the adapter's return value
    outcome,              \* how the invocation ended
    menu,                 \* the arguments of the showSuggestionMenu call that opened a menu
    \* ---- history, for the claims ----
    docBefore,            \* doc when the command was triggered
    fileChanged           \* the active file changed while the request was outstanding

VARIABLES
    \* ---- the plugin's settings on disk and its context control panel ----
    data,                 \* what saveData wrote last (data.json), read by loadData
    panel,                \* the ContextControlPanel view: its flags and whether it is open
    tab                   \* the settings tab: whether it is displayed, the text in its fields

codecVars == <<diffIn, diff, isOverlength, preserveTextInsideQuotes,
               textWithSuggestions, changeCount, decoded, mode, cpc>>

pluginVars == <<settings, data, panel, tab>>

hostVars == <<pluginVars, activeFile, doc, sel>>

runVars == <<pc, scope, oldText, origin, fileBefore, progress, notices, requests,
             response, result, outcome, menu, docBefore, fileChanged>>

vars == <<codecVars, hostVars, runVars>>

----------------------------------------------------------------------------
(* Characters *)

NL == "\n"
SP == " "
DQ == "\""
SQ == "'"
HL == <<"=", "=">>       \* the Addition marker ==
ST == <<"~", "~">>       \* the Removal marker ~~

\* JavaScript's \s restricted to the characters of the model.
IsSpace(c) == c \in {SP, NL}
\* JavaScript's "." (no dotAll flag): any character but a line terminator.
Dot(c) == c # NL

----------------------------------------------------------------------------
(* String helpers *)

NoText == <<>>

\* s has p at (1-based) position i
At(s, i, p) == /\ i >= 1
               /\ i + Len(p) - 1 <= Len(s)
               /\ SubSeq(s, i, i + Len(p) - 1) = p

From(s, i) == SubSeq(s, i, Len(s))

RECURSIVE Concat(_)
Concat(ss) == IF ss = <<>> THEN <<>> ELSE Head(ss) \o Concat(Tail(ss))

\* p occurs somewhere in s
Contains(s, p) == \E i \in 1..Len(s) : At(s, i, p)

EndsWith(s, p) == At(s, Len(s) - Len(p) + 1, p)

\* text.match(/==|~~/)
HasMarker(s) == Contains(s, HL) \/ Contains(s, ST)

\* s.replace(/p/g, r) for a literal p
RECURSIVE ReplaceLitFrom(_, _, _, _)
ReplaceLitFrom(s, p, r, i) ==
    IF i > Len(s) THEN <<>>
    ELSE IF At(s, i, p) THEN r \o ReplaceLitFrom(s, p, r, i + Len(p))
    ELSE <<s[i]>> \o ReplaceLitFrom(s, p, r, i + 1)

ReplaceLit(s, p, r) == ReplaceLitFrom(s, p, r, 1)

\* number of matches of /==|~~/g in s
RECURSIVE CountMarkersFrom(_, _)
CountMarkersFrom(s, i) ==
    IF i > Len(s) THEN 0
    ELSE IF At(s, i, HL) \/ At(s, i, ST) THEN 1 + CountMarkersFrom(s, i + 2)
    ELSE CountMarkersFrom(s, i + 1)

\* every character of s[i..j] is matched by "."
AllDot(s, i, j) == \A k \in i..j : Dot(s[k])

----------------------------------------------------------------------------
(* removeMarkup *)

\* s.replace(/m.*?m/g, "") for a two-character marker m: at a position that
\* holds m, the lazy ".*?" stops at the nearest later m that is reached
\* without crossing a line break; without one there is no match here.
RECURSIVE RemoveRegionsFrom(_, _, _)
RemoveRegionsFrom(s, m, i) ==
    IF i > Len(s) THEN <<>>
    ELSE LET ends == {j \in (i + 2)..(Len(s) - 1) :
                         At(s, j, m) /\ AllDot(s, i + 2, j - 1)}
         IN  IF At(s, i, m) /\ ends # {}
             THEN LET j == CHOOSE x \in ends : \A y \in ends : x <= y
                  IN  RemoveRegionsFrom(s, m, j + 2)
             ELSE <<s[i]>> \o RemoveRegionsFrom(s, m, i + 1)

RemoveRegions(s, m) == RemoveRegionsFrom(s, m, 1)

removeMarkup(text, md) ==
    IF md = "accept"
    THEN RemoveRegions(ReplaceLit(text, HL, <<>>), ST)
    ELSE RemoveRegions(ReplaceLit(text, ST, <<>>), HL)

----------------------------------------------------------------------------
(* getDiffMarkdown *)

\* A Change of jsdiff: {added, removed, value}
Change(a, r, v) == [added |-> a, removed |-> r, value |-> v]
Eq(v)  == Change(FALSE, FALSE, v)
Add(v) == Change(TRUE, FALSE, v)
Del(v) == Change(FALSE, TRUE, v)

\* The callout spliced in for an overlength input.  "CALLOUT" stands for the
\* two lines "> [!INFO] End of proofreading" / "> The input text was too
\* long. Text after this point is unchanged.", which hold no marker and no
\* quotation mark; the blank lines around them are kept.
cutOffCallout == <<NL, NL, "CALLOUT", NL, NL>>

\* (diff.at(-1) as Change).removed = false
ClearLastRemoved(d) == [d EXCEPT ![Len(d)].removed = FALSE]

\* diff.splice(-2, 0, x): the insertion index is max(length - 2, 0)
SpliceBeforeLastTwo(d, x) ==
    LET start == IF Len(d) >= 2 THEN Len(d) - 2 ELSE 0
    IN  SubSeq(d, 1, start) \o <<x>> \o SubSeq(d, start + 1, Len(d))

\* lines 19-28: do not remove text after cutoff-length
Truncate(d, over) ==
    IF over THEN SpliceBeforeLastTwo(ClearLastRemoved(d), Eq(cutOffCallout))
    ELSE d

\* the two markers taken for each other
EncodePartSwapped(part) ==
    IF ~part.added /\ ~part.removed THEN part.value
    ELSE IF part.added THEN ST \o part.value \o ST
    ELSE HL \o part.value \o HL

\* lines 31-36: one part as ==highlight== or ~~strikethrough~~
EncodePart(part) ==
    IF ~part.added /\ ~part.removed THEN part.value
    ELSE IF part.added THEN HL \o part.value \o HL
    ELSE ST \o part.value \o ST

Encode(d) == Concat([i \in 1..Len(d) |-> EncodePart(d[i])])

\* The characters of the class after "==" in the regular expression of line
\* 40: the source holds two straight double quotes there.
DoubleQuoteClass == {DQ}
\* ... and in that of line 41: two straight single quotes.
SingleQuoteClass == {SQ}

\* .replace(/~~q~~==[class]==/g, q)
RECURSIVE PreserveQuoteFrom(_, _, _, _)
PreserveQuoteFrom(s, q, class, i) ==
    IF i > Len(s) THEN <<>>
    ELSE IF /\ At(s, i, ST \o <<q>> \o ST \o HL)
            /\ i + 9 <= Len(s)
            /\ s[i + 7] \in class
            /\ At(s, i + 8, HL)
         THEN <<q>> \o PreserveQuoteFrom(s, q, class, i + 10)
         ELSE <<s[i]>> \o PreserveQuoteFrom(s, q, class, i + 1)

PreserveQuote(s, q, class) == PreserveQuoteFrom(s, q, class, 1)

\* .replace(/(==|~~) /g, " $1")
RECURSIVE LeadingSpaceFrom(_, _)
LeadingSpaceFrom(s, i) ==
    IF i > Len(s) THEN <<>>
    ELSE IF (At(s, i, HL) \/ At(s, i, ST)) /\ At(s, i + 2, <<SP>>)
         THEN <<SP, s[i], s[i + 1]>> \o LeadingSpaceFrom(s, i + 3)
         ELSE <<s[i]>> \o LeadingSpaceFrom(s, i + 1)

LeadingSpace(s) == LeadingSpaceFrom(s, 1)

\* The lengths k of group 1 with which /~~(.+?)(.)~~==(\1)==/ matches at i
RemovalMatches(s, i) ==
    {k \in 1..Len(s) :
        /\ At(s, i, ST)
        /\ i + 8 + 2 * k <= Len(s)
        /\ AllDot(s, i + 2, i + 2 + k)
        /\ At(s, i + 3 + k, ST)
        /\ At(s, i + 5 + k, HL)
        /\ At(s, i + 7 + k, SubSeq(s, i + 2, i + 1 + k))
        /\ At(s, i + 7 + 2 * k, HL)}

\* .replace(/~~(.+?)(.)~~==(\1)==/g, "$1~~$2~~")
RECURSIVE OneCharRemovalFrom(_, _)
OneCharRemovalFrom(s, i) ==
    IF i > Len(s) THEN <<>>
    ELSE LET ks == RemovalMatches(s, i)
         IN  IF ks # {}
             THEN LET k == CHOOSE x \in ks : \A y \in ks : x <= y
                  IN  SubSeq(s, i + 2, i + 1 + k) \o ST \o <<s[i + 2 + k]>> \o ST
                      \o OneCharRemovalFrom(s, i + 9 + 2 * k)
             ELSE <<s[i]>> \o OneCharRemovalFrom(s, i + 1)

OneCharRemoval(s) == OneCharRemovalFrom(s, 1)

\* The lengths k of group 1 with which /~~(.+?)~~==(?:\1)(.)==/ matches at i
AdditionMatches(s, i) ==
    {k \in 1..Len(s) :
        /\ At(s, i, ST)
        /\ i + 8 + 2 * k <= Len(s)
        /\ AllDot(s, i + 2, i + 1 + k)
        /\ At(s, i + 2 + k, ST)
        /\ At(s, i + 4 + k, HL)
        /\ At(s, i + 6 + k, SubSeq(s, i + 2, i + 1 + k))
        /\ Dot(s[i + 6 + 2 * k])
        /\ At(s, i + 7 + 2 * k, HL)}

\* .replace(/~~(.+?)~~==(?:\1)(.)==/g, "$1==$2==")
RECURSIVE OneCharAdditionFrom(_, _)
OneCharAdditionFrom(s, i) ==
    IF i > Len(s) THEN <<>>
    ELSE LET ks == AdditionMatches(s, i)
         IN  IF ks # {}
             THEN LET k == CHOOSE x \in ks : \A y \in ks : x <= y
                  IN  SubSeq(s, i + 2, i + 1 + k) \o HL \o <<s[i + 6 + 2 * k]>> \o HL
                      \o OneCharAdditionFrom(s, i + 9 + 2 * k)
             ELSE <<s[i]>> \o OneCharAdditionFrom(s, i + 1)

OneCharAddition(s) == OneCharAdditionFrom(s, 1)

\* lines 38-44: cleanup
Cleanup(s) ==
    OneCharAddition(
      OneCharRemoval(
        LeadingSpace(
          PreserveQuote(PreserveQuote(s, DQ, DoubleQuoteClass), SQ, SingleQuoteClass))))

\* line 47: inside.replace(/~~/g, "").replace(/==.*?==/g, "")
OriginalInside(inside) == RemoveRegions(ReplaceLit(inside, ST, <<>>), HL)

\* lines 45-50: .replace(/"([^"]+)"/g, (_, inside) => `"${originalText}"`)
RECURSIVE InsideQuotesFrom(_, _)
InsideQuotesFrom(s, i) ==
    IF i > Len(s) THEN <<>>
    ELSE LET closing == {j \in (i + 1)..Len(s) : s[j] = DQ}
         IN  IF s[i] = DQ /\ closing # {}
                /\ (CHOOSE x \in closing : \A y \in closing : x <= y) >= i + 2
             THEN LET j == CHOOSE x \in closing : \A y \in closing : x <= y
                  IN  <<DQ>> \o OriginalInside(SubSeq(s, i + 1, j - 1)) \o <<DQ>>
                      \o InsideQuotesFrom(s, j + 1)
             ELSE <<s[i]>> \o InsideQuotesFrom(s, i + 1)

InsideQuotes(s, preserve) == IF preserve THEN InsideQuotesFrom(s, 1) ELSE s

\* getDiffMarkdown(settings, oldText, newText, isOverlength), given the
\* result d of diffWords(oldText, newText)
getDiffMarkdown(preserve, d, over) ==
    LET t == InsideQuotes(Cleanup(Encode(Truncate(d, over))), preserve)
    IN  [textWithSuggestions |-> t, changeCount |-> CountMarkersFrom(t, 1)]

----------------------------------------------------------------------------
(* diffWords *)

\* The text a Change[] stands for: the added parts left out give the
\* original text, the removed parts left out give the revised text.
RECURSIVE OldTextOf(_)
OldTextOf(d) ==
    IF d = <<>> THEN <<>>
    ELSE (IF Head(d).added THEN <<>> ELSE Head(d).value) \o OldTextOf(Tail(d))

RECURSIVE NewTextOf(_)
NewTextOf(d) ==
    IF d = <<>> THEN <<>>
    ELSE (IF Head(d).removed THEN <<>> ELSE Head(d).value) \o NewTextOf(Tail(d))

\* The tokens diffWords compares: a run of letters, a run of white space, or
\* one other character.
Letters == {"a", "b", "s"}
CharClass(c) == IF c \in Letters THEN "word" ELSE IF IsSpace(c) THEN "space" ELSE "other"

RECURSIVE TokensFrom(_, _, _)
TokensFrom(s, i, cur) ==
    IF i > Len(s) THEN (IF cur = <<>> THEN {} ELSE {cur})
    ELSE IF cur # <<>> /\ CharClass(s[i]) = CharClass(cur[1]) /\ CharClass(s[i]) # "other"
         THEN TokensFrom(s, i + 1, Append(cur, s[i]))
         ELSE (IF cur = <<>> THEN {} ELSE {cur}) \cup TokensFrom(s, i + 1, <<s[i]>>)

Tokens(s) == TokensFrom(s, 1, <<>>)

\* the first token of a text that is not empty
FirstToken(s) ==
    LET same == {k \in 1..Len(s) : \A j \in 1..k : CharClass(s[j]) = CharClass(s[1])}
    IN  IF CharClass(s[1]) = "other" THEN <<s[1]>>
        ELSE SubSeq(s, 1, CHOOSE k \in same : \A j \in same : j <= k)

\* What diffWords returns: the parts are not empty, no two neighbours are of
\* the same kind, a removed part comes before the added part that replaces
\* it, a removed part and the added part after it share no token (the edit
\* script is a shortest one), and a change starts only where the two texts
\* differ (the common run before it is followed as far as it goes).
IsDiffWordsResult(d) ==
    /\ Len(d) >= 1
    /\ \A i \in 1..Len(d) : d[i].value # <<>> /\ ~(d[i].added /\ d[i].removed)
    /\ \A i \in 1..(Len(d) - 1) :
          /\ ~(d[i].added = d[i + 1].added /\ d[i].removed = d[i + 1].removed)
          /\ ~(d[i].added /\ d[i + 1].removed)
          /\ (d[i].removed /\ d[i + 1].added)
                => Tokens(d[i].value) \cap Tokens(d[i + 1].value) = {}
          /\ ((d[i].removed \/ d[i].added) /\ ~d[i + 1].added /\ ~d[i + 1].removed
                /\ (i = 1 \/ ~d[i - 1].removed))
                => FirstToken(d[i].value) # FirstToken(d[i + 1].value)

Changes(V) == {Eq(v) : v \in V} \cup {Add(v) : v \in V} \cup {Del(v) : v \in V}

DiffWordsResults(V, n) ==
    UNION {{d \in [1..k -> Changes(V)] : IsDiffWordsResult(d)} : k \in 1..n}

----------------------------------------------------------------------------
(* The codec run on its own: getDiffMarkdown, then removeMarkup *)

\* the longest Change[] drawn
MaxOps == 3

\* the part values drawn: words, a word after a blank, a comma, a word on a
\* new line
Vals == { <<"a">>, <<"a", "s">>, <<SP, "b">>, <<",">>, <<NL, "b">> }

\* generateSuggestions calls getDiffMarkdown only with an oldText that is not
\* blank (line 77) and a newText that is not empty (line 117)
IsBlank(s) == \A i \in 1..Len(s) : IsSpace(s[i])

CodecInputs(V, n) ==
    {d \in DiffWordsResults(V, n) : ~IsBlank(OldTextOf(d)) /\ NewTextOf(d) # <<>>}

\* the host and the invocation at rest: no command is running
NoResponse == [kind |-> "none"]
NoResult == [status |-> "none"]
NoOrigin == [startOffset |-> 0, from |-> [line |-> 0, ch |-> 0],
             to |-> [line |-> 0, ch |-> 0], line |-> 0]
NoMenu == [shown |-> FALSE]

\* nothing saved yet (loadData gives null); the panel as it is constructed
NoData == <<>>
NoPanel == [open |-> FALSE, useWholeNoteContext |-> FALSE, useCustomContext |-> FALSE,
            useDynamicContext |-> FALSE]
NoTab == [open |-> FALSE]

Files == {"A.md", "B.md"}

AtRest ==
    /\ settings = [llmProvider |-> "openai", openAiApiKey |-> TRUE,
                   geminiApiKey |-> TRUE, lmStudioServerUrl |-> TRUE,
                   openAiModel |-> TRUE, lmStudioReasoningEnabled |-> FALSE]
    /\ activeFile = "A.md"
    /\ doc = [f \in Files |-> NoText]
    /\ sel = [from |-> 0, to |-> 0, multi |-> FALSE]
    /\ pc = "idle"
    /\ scope = "none"
    /\ oldText = NoText
    /\ origin = NoOrigin
    /\ fileBefore = "A.md"
    /\ progress = FALSE
    /\ notices = {}
    /\ requests = 0
    /\ response = NoResponse
    /\ result = NoResult
    /\ outcome = "none"
    /\ menu = NoMenu
    /\ docBefore = [f \in Files |-> NoText]
    /\ fileChanged = FALSE
    /\ data = NoData
    /\ panel = NoPanel
    /\ tab = NoTab

InitCodec ==
    /\ AtRest
    /\ diffIn \in CodecInputs(Vals, MaxOps)
    /\ diff = diffIn
    /\ isOverlength \in BOOLEAN
    /\ preserveTextInsideQuotes = FALSE
    /\ textWithSuggestions = NoText
    /\ changeCount = 0
    /\ decoded = NoText
    /\ mode = "none"
    /\ cpc = "input"

GetDiffMarkdown ==
    /\ cpc = "input"
    /\ LET r == getDiffMarkdown(preserveTextInsideQuotes, diffIn, isOverlength)
       IN  /\ textWithSuggestions' = r.textWithSuggestions
           /\ changeCount' = r.changeCount
    /\ diff' = Truncate(diffIn, isOverlength)
    /\ cpc' = "encoded"
    /\ UNCHANGED <<diffIn, isOverlength, preserveTextInsideQuotes, decoded, mode>>
    /\ UNCHANGED <<hostVars, runVars>>

RemoveMarkup(md) ==
    /\ cpc = "encoded"
    /\ decoded' = removeMarkup(textWithSuggestions, md)
    /\ mode' = md
    /\ cpc' = "decoded"
    /\ UNCHANGED <<diffIn, diff, isOverlength, preserveTextInsideQuotes,
                   textWithSuggestions, changeCount>>
    /\ UNCHANGED <<hostVars, runVars>>

NextCodec ==
    \/ GetDiffMarkdown
    \/ \E md \in {"accept", "reject"} : RemoveMarkup(md)

SpecCodec == InitCodec /\ [][NextCodec]_vars

\* removeMarkup on its own, applied to an annotated text whose markers are
\* paired and not nested: the text is built from its runs (kept in diffIn), a
\* plain run verbatim and a marked run between its markers.
InitDecode ==
    /\ AtRest
    /\ diffIn \in DiffWordsResults(Vals, MaxOps)
    /\ diff = diffIn
    /\ isOverlength = FALSE
    /\ preserveTextInsideQuotes = FALSE
    /\ textWithSuggestions = Encode(diffIn)
    /\ changeCount = CountMarkersFrom(Encode(diffIn), 1)
    /\ decoded = NoText
    /\ mode = "none"
    /\ cpc = "encoded"

NextDecode == \E md \in {"accept", "reject"} : RemoveMarkup(md)

SpecDecode == InitDecode /\ [][NextDecode]_vars

----------------------------------------------------------------------------
(* Claims about the codec *)

\* C1 (as claimed): when the revision is not truncated and quote preservation
\* is off, decoding the annotated text under "accept" gives the revised text
\* exactly.
C1_AcceptRoundTrip ==
    (cpc = "decoded" /\ mode = "accept" /\ ~isOverlength /\ ~preserveTextInsideQuotes)
        => decoded = NewTextOf(diffIn)

\* C2 (as claimed): when the revision is not truncated and quote preservation
\* is off, decoding the annotated text under "reject" gives the original text
\* exactly.
C2_RejectRoundTrip ==
    (cpc = "decoded" /\ mode = "reject" /\ ~isOverlength /\ ~preserveTextInsideQuotes)
        => decoded = OldTextOf(diffIn)

\* C3 (as claimed): for an annotated text with paired, not nested markers
\* (inner text of any characters, line breaks included) removeMarkup under
\* "accept" keeps the inner text of every Addition run and drops every Removal
\* run with its content, under "reject" the inverse, and no marker is left.
C3_DecodeSemantics ==
    cpc = "decoded" =>
        /\ decoded = (IF mode = "accept" THEN NewTextOf(diffIn) ELSE OldTextOf(diffIn))
        /\ ~HasMarker(decoded)

\* t without a last Addition run
StripTrailingAddition(t) ==
    IF EndsWith(t, HL) /\ \E i \in 1..(Len(t) - 3) : At(t, i, HL)
    THEN LET opens == {i \in 1..(Len(t) - 3) : At(t, i, HL)}
             j == CHOOSE x \in opens : \A y \in opens : y <= x
         IN  SubSeq(t, 1, j - 1)
    ELSE t

\* the annotated text ends with a Removal run (followed at most by the
\* Addition run that replaces it)
EndsWithRemoval(t) == EndsWith(StripTrailingAddition(t), ST)

\* C9 (as claimed): when the revision is flagged as truncated, the original
\* text after the truncation point (the end of the original, which the cut
\* revision does not reach) is not wrapped in Removal markers in the
\* annotated output.
C9_TruncationKeepsTail ==
    (cpc # "input" /\ isOverlength) => ~EndsWithRemoval(textWithSuggestions)

\* the positions of the callout in t
CalloutAt(t) == {i \in 1..Len(t) : At(t, i, cutOffCallout)}

\* m is made of marked runs only (it may be empty)
RECURSIVE OnlyMarkedRuns(_)
OnlyMarkedRuns(m) ==
    IF m = <<>> THEN TRUE
    ELSE LET mk == IF At(m, 1, HL) THEN HL ELSE ST
             closes == {j \in 3..(Len(m) - 1) : At(m, j, mk)}
         IN  /\ At(m, 1, mk)
             /\ closes # {}
             /\ OnlyMarkedRuns(From(m, (CHOOSE x \in closes : \A y \in closes : x <= y) + 2))

\* rest begins with an unchanged run that is the last one of the text
BeginsWithFinalUnchangedRun(rest) ==
    /\ rest # <<>>
    /\ ~At(rest, 1, HL) /\ ~At(rest, 1, ST)
    /\ \E k \in 1..Len(rest) :
          /\ ~HasMarker(SubSeq(rest, 1, k))
          /\ OnlyMarkedRuns(From(rest, k + 1))

\* C10 (as claimed): when the revision is flagged as truncated, the callout
\* occurs exactly once in the annotated output and stands immediately before
\* the final unchanged run.
C10_CalloutBeforeFinalRun ==
    (cpc # "input" /\ isOverlength) =>
        /\ Cardinality(CalloutAt(textWithSuggestions)) = 1
        /\ \A i \in CalloutAt(textWithSuggestions) :
              BeginsWithFinalUnchangedRun(
                  From(textWithSuggestions, i + Len(cutOffCallout)))

----------------------------------------------------------------------------
(***************************************************************************)
(* The host editor *)
(***************************************************************************)

\* String.prototype.slice(from, to) on offsets counted from 0
Clip(text, offset) == IF offset > Len(text) THEN Len(text) ELSE offset

Slice(text, from, to) == SubSeq(text, Clip(text, from) + 1, Clip(text, to))

\* the front matter of a note: the block and the line break that ends it
FrontMatter == <<"FRONTMATTER", NL>>

\* the front matter taken for a part of the body
contentStartIgnored(text) == 0

\* getFrontMatterInfo(text).contentStart: the offset where the body starts
contentStart(text) == IF At(text, 1, FrontMatter) THEN Len(FrontMatter) ELSE 0

\* the index of the n-th line break of a text (n >= 1)
NthBreak(text, n) ==
    CHOOSE i \in 1..Len(text) :
        text[i] = NL /\ Cardinality({j \in 1..i : text[j] = NL}) = n

lineCount(text) == 1 + Cardinality({j \in 1..Len(text) : text[j] = NL})

LineStart(text, line) ==
    IF line = 0 THEN 0
    ELSE IF line < lineCount(text) THEN NthBreak(text, line) ELSE Len(text)

LineEnd(text, line) ==
    IF line + 1 < lineCount(text) THEN NthBreak(text, line + 1) - 1 ELSE Len(text)

\* editor.getLine(line)
getLine(text, line) == Slice(text, LineStart(text, line), LineEnd(text, line))

\* editor.offsetToPos(offset)
offsetToPos(text, offset) ==
    LET line == Cardinality({j \in 1..Clip(text, offset) : text[j] = NL})
    IN [line |-> line, ch |-> offset - LineStart(text, line)]

\* editor.posToOffset(pos)
posToOffset(text, pos) == Clip(text, LineStart(text, pos.line) + pos.ch)

\* editor.replaceRange(replacement, from, to), on offsets
replaceRange(text, replacement, from, to) ==
    Slice(text, 0, from) \o replacement \o Slice(text, to, Len(text))

\* editor.setLine(line, replacement)
setLine(text, line, replacement) ==
    replaceRange(text, replacement, LineStart(text, line), LineEnd(text, line))

(***************************************************************************)
(* The provider adapters: openAiRequest, lmStudioRequest, geminiRequest *)
(***************************************************************************)

\* the shapes of what comes back for requestUrl:
\*   status401, status400, fetchFailed, otherError: requestUrl throws
\*   noList:    the JSON has no choices / output
\*   emptyList: choices is [] / output holds no assistant item
\*   emptyItem: the first item has no message / an empty content list
\*   noContent: the content of the message is null
\*   text:      the content is the string raw; atLimit: the output hit the
\*              token limit (finish_reason "length", completion_tokens at max)
ErrorKinds == {"status401", "status400", "fetchFailed", "otherError"}
ShapeKinds == {"noList", "emptyList", "emptyItem", "noContent"}

Undefined == [status |-> "undefined"]
Throws == [status |-> "throws"]
Returned(t, over) == [status |-> "returned", newText |-> t, isOverlength |-> over]

\* oldText.match(/^(\s*)/)[0]
leadingWhitespace(s) ==
    LET n == CHOOSE k \in 0..Len(s) :
                 /\ \A i \in 1..k : IsSpace(s[i])
                 /\ (k < Len(s) => ~IsSpace(s[k + 1]))
    IN SubSeq(s, 1, n)

\* oldText.match(/(\s*)$/)[0]
trailingWhitespace(s) ==
    LET n == CHOOSE k \in 0..Len(s) :
                 /\ \A i \in (Len(s) - k + 1)..Len(s) : IsSpace(s[i])
                 /\ (k < Len(s) => ~IsSpace(s[Len(s) - k]))
    IN SubSeq(s, Len(s) - n + 1, Len(s))

\* newText.replace(/^(\s*)/, leading).replace(/(\s*)$/, trailing)
SameSurroundingWhitespace(old, new) ==
    LET a == leadingWhitespace(old) \o
             SubSeq(new, Len(leadingWhitespace(new)) + 1, Len(new))
    IN SubSeq(a, 1, Len(a) - Len(trailingWhitespace(a))) \o trailingWhitespace(old)

\* String.prototype.trim()
trim(s) ==
    LET a == SubSeq(s, Len(leadingWhitespace(s)) + 1, Len(s))
    IN SubSeq(a, 1, Len(a) - Len(trailingWhitespace(a)))

\* a reasoning block of a local model, opened and closed by its tags
ThinkOpen == "<think>"
ThinkClose == "</think>"

\* newText.replace(/<think>[\s\S]*?<\/think>\s*/i, ""): the first block, up to
\* the nearest closing tag, and the whitespace after it
RemoveThink(s) ==
    IF \E i \in 1..Len(s) : s[i] = ThinkOpen /\ \E j \in (i + 1)..Len(s) : s[j] = ThinkClose
    THEN LET i == CHOOSE i \in 1..Len(s) :
                      /\ s[i] = ThinkOpen
                      /\ \E j \in (i + 1)..Len(s) : s[j] = ThinkClose
                      /\ \A h \in 1..(i - 1) :
                            ~(s[h] = ThinkOpen /\ \E j \in (h + 1)..Len(s) : s[j] = ThinkClose)
             j == CHOOSE j \in (i + 1)..Len(s) :
                      s[j] = ThinkClose /\ \A h \in (i + 1)..(j - 1) : s[h] # ThinkClose
             rest == SubSeq(s, j + 1, Len(s))
         IN SubSeq(s, 1, i - 1) \o SubSeq(rest, Len(leadingWhitespace(rest)) + 1, Len(rest))
    ELSE s

\* the notice an adapter shows, and no request, when its settings are missing
AdapterGuard(s) ==
    CASE s.llmProvider = "openai" /\ ~s.openAiApiKey -> "noOpenAiKey"
      [] s.llmProvider = "lmstudio" /\ ~s.lmStudioServerUrl -> "noServerUrl"
      [] s.llmProvider = "lmstudio" /\ ~s.openAiModel -> "noModel"
      [] s.llmProvider = "gemini" /\ ~s.geminiApiKey -> "noGeminiKey"
      [] OTHER -> "ok"

\* openAiRequest after requestUrl settled: what it shows and returns
openAiRequest(s, old, r) ==
    CASE r.kind = "status401" -> [shows |-> {"invalidKey"}, returns |-> Undefined]
      [] r.kind \in ErrorKinds \ {"status401"} ->
            [shows |-> {"logError"}, returns |-> Undefined]
      [] r.kind = "emptyItem" -> [shows |-> {}, returns |-> Throws]
      [] r.kind \in ShapeKinds \ {"emptyItem"} ->
            [shows |-> {"logError"}, returns |-> Undefined]
      [] r.kind = "text" /\ r.raw = NoText ->
            [shows |-> {"logError"}, returns |-> Undefined]
      [] OTHER -> [shows |-> {}, returns |-> Returned(r.raw, r.atLimit)]

\* lmStudioRequest after requestUrl settled
lmStudioRequest(s, old, r) ==
    CASE r.kind = "fetchFailed" -> [shows |-> {"connectFailed"}, returns |-> Undefined]
      [] r.kind = "status401" -> [shows |-> {"invalidKey"}, returns |-> Undefined]
      [] r.kind \in {"status400", "otherError"} ->
            [shows |-> {"logError"}, returns |-> Undefined]
      [] r.kind \in {"emptyList", "emptyItem"} -> [shows |-> {}, returns |-> Throws]
      [] r.kind \in {"noList", "noContent"} ->
            [shows |-> {"logError", "emptyOrInvalid"}, returns |-> Undefined]
      [] r.kind = "text" /\ r.raw = NoText ->
            [shows |-> {"logError", "emptyOrInvalid"}, returns |-> Undefined]
      [] OTHER ->
            LET fixed == SameSurroundingWhitespace(old, r.raw)
                new == IF s.lmStudioReasoningEnabled THEN trim(RemoveThink(fixed)) ELSE fixed
            IN [shows |-> {}, returns |-> Returned(new, FALSE)]

\* geminiRequest after requestUrl settled
geminiRequest(s, old, r) ==
    CASE r.kind = "status401" -> [shows |-> {"invalidKey"}, returns |-> Undefined]
      [] r.kind = "status400" -> [shows |-> {"badRequest"}, returns |-> Undefined]
      [] r.kind \in {"fetchFailed", "otherError"} ->
            [shows |-> {"logError"}, returns |-> Undefined]
      [] r.kind \in ShapeKinds -> [shows |-> {"logError"}, returns |-> Undefined]
      [] OTHER ->
            [shows |-> IF r.atLimit THEN {"overlength"} ELSE {},
             returns |-> Returned(SameSurroundingWhitespace(old, r.raw), r.atLimit)]

\* a dispatch that hands LM Studio's text to the OpenAI adapter
ProviderRequestSwapped(s, old, r) ==
    CASE s.llmProvider = "lmstudio" -> openAiRequest(s, old, r)
      [] s.llmProvider = "openai" -> lmStudioRequest(s, old, r)
      [] OTHER -> geminiRequest(s, old, r)

\* the adapter generateSuggestions dispatches to
ProviderRequest(s, old, r) ==
    CASE s.llmProvider = "openai" -> openAiRequest(s, old, r)
      [] s.llmProvider = "lmstudio" -> lmStudioRequest(s, old, r)
      [] OTHER -> geminiRequest(s, old, r)

(***************************************************************************)
(* The proofread invocation: proofreadDocument / proofreadText,            *)
(* generateSuggestions, the adapter, showSuggestionMenu                    *)
(***************************************************************************)

\* the longest Change[] diffWords returns in an invocation
MaxProcOps == 2

\* the part values of an invocation: two words and a word on a new line
ProcVals == { <<"a">>, <<"a", "s">>, <<NL, "b">> }

ProcDiffs == DiffWordsResults(ProcVals, MaxProcOps)

\* the original texts diffWords has an answer for, and the answers of each
ProcOldTexts == {OldTextOf(d) : d \in ProcDiffs}

DiffsOf == [old \in ProcOldTexts |-> {d \in ProcDiffs : OldTextOf(d) = old}]

\* diffWords(oldText, newText)
diffWords(old, new) ==
    IF old = new THEN {<<Eq(old)>>}
    ELSE IF old \in ProcOldTexts THEN {d \in DiffsOf[old] : NewTextOf(d) = new}
    ELSE {}

\* the notes drawn: the texts diffWords has an answer for, an empty one, a
\* blank one, two with suggestion markup; with or without front matter
Bodies ==
    ProcOldTexts
        \cup {NoText, <<SP>>, ST \o <<"a">> \o ST, <<"a", NL>> \o HL \o <<"b">> \o HL}

Notes == Bodies \cup {FrontMatter \o b : b \in Bodies}

\* the editor's selection: the cursor at the start of the body or at the end
\* of the note, the body selected, or several selections
Selections(text) ==
    { [from |-> contentStart(text), to |-> contentStart(text), multi |-> FALSE],
      [from |-> Len(text), to |-> Len(text), multi |-> FALSE],
      [from |-> contentStart(text), to |-> Len(text), multi |-> FALSE],
      [from |-> contentStart(text), to |-> Len(text), multi |-> TRUE] }

Setting(p, key, url, model, reasoning) ==
    [llmProvider |-> p, openAiApiKey |-> key, geminiApiKey |-> key,
     lmStudioServerUrl |-> url, openAiModel |-> model,
     lmStudioReasoningEnabled |-> reasoning]

\* the settings drawn: each provider set up, each with a setting missing, LM
\* Studio with the reasoning mode, and a provider the plugin does not know
SettingsDrawn ==
    { Setting("openai", TRUE, TRUE, TRUE, FALSE),
      Setting("openai", FALSE, TRUE, TRUE, FALSE),
      Setting("lmstudio", TRUE, TRUE, TRUE, FALSE),
      Setting("lmstudio", TRUE, TRUE, TRUE, TRUE),
      Setting("lmstudio", TRUE, FALSE, TRUE, FALSE),
      Setting("lmstudio", TRUE, TRUE, FALSE, FALSE),
      Setting("gemini", TRUE, TRUE, TRUE, FALSE),
      Setting("gemini", FALSE, TRUE, TRUE, FALSE),
      Setting("other", TRUE, TRUE, TRUE, FALSE) }

\* what the model answers to oldText: a revision diffWords has an answer
\* for, the text itself, nothing, or only a reasoning block
RawTexts(old) ==
    (IF old \in ProcOldTexts THEN {NewTextOf(d) : d \in DiffsOf[old]} ELSE {})
        \cup {old, NoText, <<ThinkOpen, "a", ThinkClose>>}

Responses(old) ==
    {[kind |-> k] : k \in ErrorKinds \cup ShapeKinds}
        \cup {[kind |-> "text", raw |-> t, atLimit |-> l] : t \in RawTexts(old), l \in BOOLEAN}

Init ==
    /\ settings \in SettingsDrawn
    /\ activeFile = "A.md"
    /\ \E n \in Notes : doc = [f \in Files |-> IF f = "A.md" THEN n ELSE <<"b">>]
    /\ sel \in Selections(doc["A.md"])
    /\ pc = "idle"
    /\ scope = "none"
    /\ oldText = NoText
    /\ origin = NoOrigin
    /\ fileBefore = "A.md"
    /\ progress = FALSE
    /\ notices = {}
    /\ requests = 0
    /\ response = NoResponse
    /\ result = NoResult
    /\ outcome = "none"
    /\ menu = NoMenu
    /\ docBefore = doc
    /\ fileChanged = FALSE
    /\ data = NoData
    /\ panel = NoPanel
    /\ tab = NoTab
    /\ diffIn = <<>>
    /\ diff = <<>>
    /\ isOverlength = FALSE
    /\ preserveTextInsideQuotes = FALSE
    /\ textWithSuggestions = NoText
    /\ changeCount = 0
    /\ decoded = NoText
    /\ mode = "none"
    /\ cpc = "none"

\* oldText.trim() === ""
GuardEmpty(text) == IsBlank(text)

\* the guard on markup left out
GuardMarkupOff(text) == FALSE

\* oldText.match(/==|~~/)
GuardMarkup(text) == HasMarker(text)

\* generateSuggestions up to "await requestPromise": the guards, the progress
\* notice, the dispatch and the adapter up to its requestUrl call
GenerateStart(text, scopeType, org) ==
    /\ scope' = scopeType
    /\ oldText' = text
    /\ origin' = org
    /\ docBefore' = doc
    /\ fileChanged' = FALSE
    /\ UNCHANGED <<codecVars, hostVars, response, result, menu>>
    /\ IF GuardEmpty(text)
       THEN /\ notices' = {"empty"}
            /\ outcome' = "empty"
            /\ pc' = "done"
            /\ UNCHANGED <<fileBefore, progress, requests>>
       ELSE IF GuardMarkup(text)
       THEN /\ notices' = {"hasMarkup"}
            /\ outcome' = "hasMarkup"
            /\ pc' = "done"
            /\ UNCHANGED <<fileBefore, progress, requests>>
       ELSE /\ fileBefore' = activeFile
            /\ IF settings.llmProvider \notin {"openai", "lmstudio", "gemini"}
               THEN /\ notices' = {"unknownProvider"}
                    /\ progress' = FALSE
                    /\ outcome' = "unknownProvider"
                    /\ pc' = "done"
                    /\ UNCHANGED requests
               ELSE IF AdapterGuard(settings) # "ok"
               THEN /\ notices' = {AdapterGuard(settings)}
                    /\ progress' = FALSE
                    /\ outcome' = "notConfigured"
                    /\ pc' = "done"
                    /\ UNCHANGED requests
               ELSE /\ notices' = {}
                    /\ progress' = TRUE
                    /\ requests' = requests + 1
                    /\ outcome' = "none"
                    /\ pc' = "awaiting"

\* the command "proofread document", up to the await
ProofreadDocument ==
    /\ pc = "idle"
    /\ LET noteWithFrontmatter == doc[activeFile]
           bodyStartOffset == contentStart(noteWithFrontmatter)
           originalDocBodyText ==
               Slice(noteWithFrontmatter, bodyStartOffset, Len(noteWithFrontmatter))
       IN GenerateStart(originalDocBodyText, "Document",
                        [startOffset |-> bodyStartOffset,
                         from |-> offsetToPos(noteWithFrontmatter, bodyStartOffset),
                         to |-> offsetToPos(noteWithFrontmatter,
                                            bodyStartOffset + Len(originalDocBodyText)),
                         line |-> 0])

\* the command "proofread selection/paragraph", up to the await
ProofreadText ==
    /\ pc = "idle"
    /\ IF sel.multi
       THEN /\ notices' = {"multipleSelections"}
            /\ outcome' = "multipleSelections"
            /\ pc' = "done"
            /\ docBefore' = doc
            /\ UNCHANGED <<codecVars, hostVars, scope, oldText, origin, fileBefore,
                           progress, requests, response, result, menu, fileChanged>>
       ELSE LET text == doc[activeFile]
                cursor == offsetToPos(text, sel.from)
                selection == Slice(text, sel.from, sel.to)
            IN IF selection # NoText
               THEN GenerateStart(selection, "Selection",
                                  [startOffset |-> sel.from, from |-> cursor,
                                   to |-> offsetToPos(text, sel.to),
                                   line |-> cursor.line])
               ELSE GenerateStart(getLine(text, cursor.line), "Paragraph",
                                  [startOffset |-> LineStart(text, cursor.line),
                                   from |-> [line |-> cursor.line, ch |-> 0],
                                   to |-> [line |-> cursor.line,
                                           ch |-> Len(getLine(text, cursor.line))],
                                   line |-> cursor.line])

\* the user opens another file while the request is outstanding
ActiveFileChange ==
    /\ pc = "awaiting"
    /\ \E f \in Files \ {activeFile} : activeFile' = f
    /\ fileChanged' = TRUE
    /\ UNCHANGED <<codecVars, pluginVars, doc, sel, pc, scope, oldText, origin, fileBefore,
                   progress, notices, requests, response, result, outcome, menu, docBefore>>

\* how an invocation that applies nothing ends: the notices it adds and
\* whether the progress notice stays on screen
Ends(o, shown, stays) ==
    /\ pc' = "done"
    /\ outcome' = o
    /\ notices' = notices \cup shown
    /\ progress' = stays
    /\ UNCHANGED <<codecVars, doc, sel, menu>>

\* showSuggestionMenu: nothing on mobile, else a menu over the scope
showSuggestionMenu(isMobile, withMarkup, untouched, startPos, endPos, scopeType) ==
    IF isMobile THEN NoMenu
    ELSE [shown |-> TRUE,
          currentScopeTextWithMarkup |-> withMarkup,
          originalUntouchedText |-> untouched,
          scopeStartPos |-> startPos,
          scopeEndPos |-> endPos,
          scopeType |-> scopeType]

\* the command after generateSuggestions returned its payload: the annotated
\* text goes into the editor, the cursor to the start of the scope, the menu
\* opens
ApplySuggestions(tws) ==
    LET text == doc[activeFile]
        written ==
            CASE scope = "Document" ->
                    replaceRange(text, tws, posToOffset(text, origin.from),
                                 posToOffset(text, origin.to))
              [] scope = "Selection" -> replaceRange(text, tws, sel.from, sel.to)
              [] OTHER -> setLine(text, origin.line, tws)
    IN \E after \in {written} :
       /\ doc' = [doc EXCEPT ![activeFile] = after]
       /\ sel' = [from |-> posToOffset(after, origin.from),
                  to |-> posToOffset(after, origin.from), multi |-> FALSE]
       /\ \E isMobile \in BOOLEAN :
             menu' = showSuggestionMenu(isMobile, tws, oldText, origin.from,
                                        offsetToPos(after, origin.startOffset + Len(tws)),
                                        scope)

\* the check with "!result.newText" left out
NoRevisionTextUnchecked(returned) == returned.status = "undefined"

\* the check of the active file left out
FileCheckOff(before, after) == FALSE

\* the "nothing to change" branch left out
NothingToChangeOff(new, old, tws, count) == FALSE

\* if (!result || !result.newText) return;
NoRevision(returned) == returned.status = "undefined" \/ returned.newText = NoText

\* if (fileBefore !== fileAfter)
FileChangedSince(before, after) == before # after

\* if (newText === oldText || textWithSuggestions === oldText || changeCount === 0)
NothingToChange(new, old, tws, count) == new = old \/ tws = old \/ count = 0

\* generateSuggestions from "await requestPromise" on, and the command after
\* it: all of it runs when the adapter's promise settles
GenerateRest(shown, returned) ==
    IF returned.status = "throws"
    THEN Ends("threw", shown, TRUE)
    ELSE IF NoRevision(returned)
    THEN Ends("noResult", shown, FALSE)
    ELSE IF FileChangedSince(fileBefore, activeFile)
    THEN Ends("fileChanged", shown \cup {"fileChanged"}, FALSE)
    ELSE \E d \in diffWords(oldText, returned.newText) :
        \E g \in {getDiffMarkdown(preserveTextInsideQuotes, d, returned.isOverlength)} :
           /\ diffIn' = d
           /\ diff' = Truncate(d, returned.isOverlength)
           /\ isOverlength' = returned.isOverlength
           /\ textWithSuggestions' = g.textWithSuggestions
           /\ changeCount' = g.changeCount
           /\ UNCHANGED <<preserveTextInsideQuotes, decoded, mode, cpc>>
           /\ pc' = "done"
           /\ progress' = FALSE
           /\ IF NothingToChange(returned.newText, oldText,
                                 g.textWithSuggestions, g.changeCount)
              THEN /\ notices' = notices \cup shown \cup {"nothingToChange"}
                   /\ outcome' = "nothingToChange"
                   /\ UNCHANGED <<doc, sel, menu>>
              ELSE /\ notices' = notices \cup shown \cup {"suggestionsReady"}
                   /\ outcome' = "applied"
                   /\ ApplySuggestions(g.textWithSuggestions)

\* the requestUrl call settles: the adapter finishes, generateSuggestions and
\* the command run to their end
ResponseArrives ==
    /\ pc = "awaiting"
    /\ \E r \in Responses(oldText) :
          \E a \in {ProviderRequest(settings, oldText, r)} :
             /\ response' = r
             /\ result' = a.returns
             /\ GenerateRest(a.shows, a.returns)
    /\ UNCHANGED <<pluginVars, activeFile, scope, oldText, origin, fileBefore, requests,
                   docBefore, fileChanged>>

Next ==
    \/ ProofreadDocument
    \/ ProofreadText
    \/ ActiveFileChange
    \/ ResponseArrives

Spec == Init /\ [][Next]_vars

----------------------------------------------------------------------------
(* Claims about the proofread invocation *)

\* generateSuggestions was entered: the command got as far as a scope text
Entered == pc # "idle" /\ scope # "none"

KnownProviders == {"openai", "lmstudio", "gemini"}

\* the revision call failed, had an invalid structure or returned empty text
CallFailed ==
    \/ response.kind \in ErrorKinds \cup ShapeKinds
    \/ response.kind = "text" /\ response.raw = NoText

\* the notices that tell of a failed revision call
FailureNotices == {"invalidKey", "badRequest", "connectFailed", "logError", "emptyOrInvalid"}

\* a revision came back: the adapter returned a text that is not empty
Received == result.status = "returned" /\ result.newText # NoText

\* C4: when the scope text is empty or blank, or holds an Addition or a
\* Removal marker, the invocation has ended with a notice about it and no
\* request was sent to a provider.
C4_GuardOrdering ==
    (Entered /\ (IsBlank(oldText) \/ HasMarker(oldText)))
        => /\ pc = "done"
           /\ requests = 0
           /\ response = NoResponse
           /\ notices \in {{"empty"}, {"hasMarkup"}}

\* a text with a marker was turned down although a request could have been sent
C4_Witness ==
    /\ pc = "done"
    /\ HasMarker(oldText) /\ ~IsBlank(oldText)
    /\ settings.llmProvider \in KnownProviders /\ AdapterGuard(settings) = "ok"
    /\ notices = {"hasMarkup"}
    /\ requests = 0

\* the invocation ended without success: a guard failed, the provider is
\* not known or not set up, the call failed or came back empty, the active
\* file is another one, or the revision is the original text
NonSuccess ==
    \/ outcome = "multipleSelections"
    \/ Entered /\ (IsBlank(oldText) \/ HasMarker(oldText))
    \/ settings.llmProvider \notin KnownProviders
    \/ AdapterGuard(settings) # "ok"
    \/ CallFailed
    \/ result.status \in {"undefined", "throws"}
    \/ activeFile # fileBefore
    \/ Received /\ result.newText = oldText

C6_StaleAtAnyPoint ==
    (pc = "done" /\ fileChanged) => doc = docBefore

\* C6: if the active file when the result arrives is not the file the
\* command was triggered in, the result is discarded: no document is
\* written and no menu opens.
C6_StaleResultRejection ==
    (pc = "done" /\ activeFile # fileBefore)
        => (doc = docBefore /\ ~menu.shown /\ outcome # "applied")

\* a revision with changes arrived while another file was active
C6_Witness ==
    /\ pc = "done"
    /\ activeFile # fileBefore
    /\ Received /\ result.newText # oldText
    /\ outcome = "fileChanged"
    /\ doc = docBefore

\* C7: for each provider, whenever the revision call failed, had an invalid
\* response structure or returned empty text, the invocation that ended has
\* shown a notice about the failure.
C7_FailureSurfaced ==
    (pc = "done" /\ CallFailed) => notices \cap FailureNotices # {}

\* the annotated text of the revision that came back holds no suggestion
ZeroSuggestions ==
    \/ result.newText = oldText
    \/ \E d \in diffWords(oldText, result.newText) :
          getDiffMarkdown(preserveTextInsideQuotes, d, result.isOverlength).changeCount = 0

\* C8 as stated: the "nothing to change" notice is shown exactly when a
\* revision was received that equals the original or yields no suggestion.
C8_NoticeWheneverNoChange ==
    pc = "done" => ("nothingToChange" \in notices <=> (Received /\ ZeroSuggestions))

\* C8: the "nothing to change" notice is shown exactly when a revision was
\* received while the active file is still the one the command was triggered
\* in and the revision equals the original or yields no suggestion; it is
\* never shown when the call failed or returned nothing.
C8_NothingToChangeNotice ==
    pc = "done" =>
        /\ "nothingToChange" \in notices
               <=> (Received /\ activeFile = fileBefore /\ ZeroSuggestions)
        /\ (CallFailed \/ ~Received) => "nothingToChange" \notin notices

\* the original text came back and the notice was shown
C8_Witness ==
    /\ pc = "done"
    /\ response.kind = "text"
    /\ Received /\ result.newText = oldText
    /\ notices = {"nothingToChange"}

----------------------------------------------------------------------------
(* Claims about the cleanup rules of getDiffMarkdown *)

\* the places of diff where a removed part is directly followed by an added one
Replacements(d) == {i \in 1..(Len(d) - 1) : d[i].removed /\ d[i + 1].added}

\* long is short with one more character at its end
OneMoreAtEnd(long, short) ==
    /\ short # <<>>
    /\ Len(long) = Len(short) + 1
    /\ SubSeq(long, 1, Len(short)) = short

\* C11: whenever a Removal run X+c (X not empty, c one character) is directly
\* followed by an Addition run X, the output holds X followed by a Removal
\* region of c alone; and a Removal run X directly followed by an Addition
\* run X+c gives X followed by an Addition region of c alone.
C11_OneCharSuffixMerge ==
    cpc # "input" =>
        \A i \in Replacements(diff) :
            /\ OneMoreAtEnd(diff[i].value, diff[i + 1].value) =>
                  Contains(textWithSuggestions,
                           diff[i + 1].value \o ST \o <<diff[i].value[Len(diff[i].value)]>> \o ST)
            /\ OneMoreAtEnd(diff[i + 1].value, diff[i].value) =>
                  Contains(textWithSuggestions,
                           diff[i].value \o HL
                               \o <<diff[i + 1].value[Len(diff[i + 1].value)]>> \o HL)

\* getDiffMarkdown over words that differ by a letter at their start or at
\* their end, with and without a following word
WordVals == { <<"a">>, <<"a", "s">>, <<"s", "a">>, <<SP, "b">> }

InitWords ==
    /\ AtRest
    /\ diffIn \in CodecInputs(WordVals, MaxOps)
    /\ diff = diffIn
    /\ isOverlength \in BOOLEAN
    /\ preserveTextInsideQuotes = FALSE
    /\ textWithSuggestions = NoText
    /\ changeCount = 0
    /\ decoded = NoText
    /\ mode = "none"
    /\ cpc = "input"

SpecWords == InitWords /\ [][NextCodec]_vars

\* long is short with one more character at its start
OneMoreAtStart(long, short) ==
    /\ short # <<>>
    /\ Len(long) = Len(short) + 1
    /\ SubSeq(long, 2, Len(long)) = short

\* C12 as stated: whenever a Removal run and the Addition run directly after
\* it differ only by one leading character c (c+X against X, or X against
\* c+X), the output holds a region of c alone next to the shared text X.
C12_OneCharPrefixMerge ==
    cpc # "input" =>
        \A i \in Replacements(diff) :
            /\ OneMoreAtStart(diff[i].value, diff[i + 1].value) =>
                  Contains(textWithSuggestions,
                           ST \o <<diff[i].value[1]>> \o ST \o diff[i + 1].value)
            /\ OneMoreAtStart(diff[i + 1].value, diff[i].value) =>
                  Contains(textWithSuggestions,
                           HL \o <<diff[i + 1].value[1]>> \o HL \o diff[i].value)

\* the two runs differ by one leading character and not by one trailing one
PrefixOnly(old, new) ==
    /\ OneMoreAtStart(old, new) \/ OneMoreAtStart(new, old)
    /\ ~OneMoreAtEnd(old, new) /\ ~OneMoreAtEnd(new, old)

\* the Removal region of old directly followed by the Addition of new
FullReplacement(old, new) == ST \o old \o ST \o HL \o new

\* C12: there is no merge for a leading character: a Removal run and the
\* Addition run directly after it that differ only by one leading character
\* (and not by one trailing character) stay a replacement of the whole run,
\* the Removal region of the old run directly followed by the Addition of the
\* new one.
C12_NoPrefixMerge ==
    cpc # "input" =>
        \A i \in Replacements(diff) :
            PrefixOnly(diff[i].value, diff[i + 1].value) =>
                Contains(textWithSuggestions,
                         FullReplacement(diff[i].value, diff[i + 1].value))

\* a word was replaced by the word without its first letter
C12_Witness ==
    /\ cpc = "encoded"
    /\ \E i \in Replacements(diff) :
          /\ diff[i].value = <<"s", "a">> /\ diff[i + 1].value = <<"a">>
          /\ Contains(textWithSuggestions, FullReplacement(<<"s", "a">>, <<"a">>))

\* the curly quotation marks, each one character of the text
LDQ == "LEFT DOUBLE QUOTATION MARK"
RDQ == "RIGHT DOUBLE QUOTATION MARK"
LSQ == "LEFT SINGLE QUOTATION MARK"
RSQ == "RIGHT SINGLE QUOTATION MARK"

\* the curly marks that correspond to a straight one
Curly(q) == IF q = DQ THEN {LDQ, RDQ} ELSE IF q = SQ THEN {LSQ, RSQ} ELSE {}

\* getDiffMarkdown over quotation marks, straight and curly, and a word
QuoteVals == { <<DQ>>, <<LDQ>>, <<RDQ>>, <<SQ>>, <<LSQ>>, <<RSQ>>, <<"a">> }

InitQuotes ==
    /\ AtRest
    /\ diffIn \in CodecInputs(QuoteVals, MaxOps)
    /\ diff = diffIn
    /\ isOverlength \in BOOLEAN
    /\ preserveTextInsideQuotes = FALSE
    /\ textWithSuggestions = NoText
    /\ changeCount = 0
    /\ decoded = NoText
    /\ mode = "none"
    /\ cpc = "input"

SpecQuotes == InitQuotes /\ [][NextCodec]_vars

\* C13: whenever a Removal of a straight quotation mark is directly followed
\* by an Addition of a corresponding curly mark, opening or closing, the
\* pair is collapsed into the straight mark: the output holds the straight
\* mark, not the pair of regions and no Addition region of the curly mark.
C13_QuoteNormalisation ==
    cpc # "input" =>
        \A i \in Replacements(diff) : \A q \in {DQ, SQ} : \A c \in Curly(q) :
            (diff[i].value = <<q>> /\ diff[i + 1].value = <<c>>) =>
                /\ ~Contains(textWithSuggestions, ST \o <<q>> \o ST \o HL \o <<c>> \o HL)
                /\ Contains(textWithSuggestions, <<q>>)
                /\ ~Contains(textWithSuggestions, HL \o <<c>> \o HL)

\* the marker at position i of t, if there is one
MarkerAt(t, i) == IF At(t, i, HL) THEN HL ELSE IF At(t, i, ST) THEN ST ELSE <<>>

\* the position of the marker that closes the region opened at i (0: none)
ClosingOf(t, i) ==
    LET later == {j \in (i + 2)..Len(t) : At(t, j, MarkerAt(t, i))}
    IN IF later = {} THEN 0 ELSE CHOOSE j \in later : \A k \in later : j <= k

\* from position i on, no region of t begins with a space
RECURSIVE NoRegionOpensWithSpace(_, _)
NoRegionOpensWithSpace(t, i) ==
    IF i > Len(t) THEN TRUE
    ELSE IF MarkerAt(t, i) = <<>> THEN NoRegionOpensWithSpace(t, i + 1)
    ELSE IF ClosingOf(t, i) = 0 THEN FALSE
    ELSE /\ t[i + 2] # SP
         /\ NoRegionOpensWithSpace(t, ClosingOf(t, i) + 2)

\* a run that no rule but the one for the leading space applies to: it is
\* marked and is not half of a Removal directly followed by an Addition
LoneRuns(d) ==
    {i \in 1..Len(d) : (d[i].added \/ d[i].removed)
                          /\ i \notin Replacements(d) /\ (i - 1) \notin Replacements(d)}

\* the region of a run, its leading space before the opening marker
RegionOf(part) ==
    LET m == IF part.added THEN HL ELSE ST
    IN IF part.value[1] = SP
       THEN <<SP>> \o m \o Tail(part.value) \o m
       ELSE m \o part.value \o m

\* C14: in the output of getDiffMarkdown no region begins with a space
\* directly after its opening marker; such a space stands directly before
\* the opening marker, and no other character is moved: the region of a
\* run holds the characters of the run, in their order, but that space.
C14_LeadingSpaceRepositioning ==
    cpc # "input" =>
        /\ NoRegionOpensWithSpace(textWithSuggestions, 1)
        /\ \A i \in LoneRuns(diff) : Contains(textWithSuggestions, RegionOf(diff[i]))

\* getDiffMarkdown over a text in double quotes: the opening quote, words, a
\* comma, and a word with the closing quote, after a space or not
InsideVals == { <<DQ>>, <<"a">>, <<",">>, <<SP, "b", DQ>>, <<"b", DQ>> }

InitInside ==
    /\ AtRest
    /\ diffIn \in CodecInputs(InsideVals, MaxOps)
    /\ diff = diffIn
    /\ isOverlength \in BOOLEAN
    /\ preserveTextInsideQuotes \in BOOLEAN
    /\ textWithSuggestions = NoText
    /\ changeCount = 0
    /\ decoded = NoText
    /\ mode = "none"
    /\ cpc = "input"

SpecInside == InitInside /\ [][NextCodec]_vars

\* the texts between the matched pairs of double quotes of t, in their order:
\* the matches of /"([^"]+)"/g
RECURSIVE QuotedSpansFrom(_, _)
QuotedSpansFrom(t, i) ==
    IF i > Len(t) THEN <<>>
    ELSE LET closing == {j \in (i + 1)..Len(t) : t[j] = DQ}
             j == CHOOSE x \in closing : \A y \in closing : x <= y
         IN IF t[i] = DQ /\ closing # {} /\ j >= i + 2
            THEN <<SubSeq(t, i + 1, j - 1)>> \o QuotedSpansFrom(t, j + 1)
            ELSE QuotedSpansFrom(t, i + 1)

QuotedSpans(t) == QuotedSpansFrom(t, 1)

\* C15: with preserveTextInsideQuotes on, the text between each matched pair
\* of double quotes of the output holds no marker and is the text of that
\* quoted span in the original.
C15_QuotePreservation ==
    (cpc # "input" /\ preserveTextInsideQuotes) =>
        /\ \A k \in 1..Len(QuotedSpans(textWithSuggestions)) :
              ~HasMarker(QuotedSpans(textWithSuggestions)[k])
        /\ QuotedSpans(textWithSuggestions) = QuotedSpans(OldTextOf(diffIn))

\* getDiffMarkdown over texts with an equals sign: a word, the sign, two
\* signs, a word after a space.  The original text holds no marker: it has
\* passed the guard of generateSuggestions (line 81).
MarkerVals == { <<"a">>, <<"=">>, <<"=", "=">>, <<SP, "b">> }

InitMarkers ==
    /\ AtRest
    /\ diffIn \in {d \in CodecInputs(MarkerVals, MaxOps) : ~GuardMarkup(OldTextOf(d))}
    /\ diff = diffIn
    /\ isOverlength \in BOOLEAN
    /\ preserveTextInsideQuotes = FALSE
    /\ textWithSuggestions = NoText
    /\ changeCount = 0
    /\ decoded = NoText
    /\ mode = "none"
    /\ cpc = "input"

SpecMarkers == InitMarkers /\ [][NextCodec]_vars

\* from position i on, t is plain text without a marker and regions: an
\* opening marker, an inner text that is not empty and holds no marker, and
\* the same marker closing it
RECURSIVE WellFormedFrom(_, _)
WellFormedFrom(t, i) ==
    IF i > Len(t) THEN TRUE
    ELSE IF MarkerAt(t, i) = <<>> THEN WellFormedFrom(t, i + 1)
    ELSE LET j == ClosingOf(t, i)
         IN /\ j > i + 2
            /\ ~HasMarker(SubSeq(t, i + 2, j - 1))
            /\ WellFormedFrom(t, j + 2)

WellFormed(t) == WellFormedFrom(t, 1)

\* the annotated text is one that generateSuggestions hands on to be written
\* into the document (line 135)
Written ==
    /\ cpc # "input"
    /\ ~NothingToChange(NewTextOf(diffIn), OldTextOf(diffIn),
                        textWithSuggestions, changeCount)

\* C16: every annotated text that is written into the document has its
\* markers paired within a region, no region nested in another, and no
\* marker in the inner text of a region, for every original text that passes
\* the guard and every revised text.
C16_WellFormedMarkup == Written => WellFormed(textWithSuggestions)

----------------------------------------------------------------------------
(***************************************************************************)
(* The suggestion menu: Accept All, Reject All, Accept Next, Reject Next   *)
(***************************************************************************)

\* the part values of the invocations whose menu is followed: three words
\* and a word after a blank
MenuVals == { <<"a">>, <<"b">>, <<"a", "s">>, <<SP, "c">> }

\* where the scope lies in the note: a selection inside a line, a line among
\* other lines, the body of a note with or without front matter
MenuContexts ==
    {[scopeType |-> "Selection", before |-> b, after |-> a] :
        b \in {NoText, <<"d", SP>>}, a \in {NoText, <<SP, "d">>}}
    \cup {[scopeType |-> "Paragraph", before |-> b, after |-> a] :
        b \in {NoText, <<"d", NL>>}, a \in {NoText, <<NL, "d">>}}
    \cup {[scopeType |-> "Document", before |-> b, after |-> NoText] :
        b \in {NoText, FrontMatter}}

\* the state in which proofreadText / proofreadDocument leave the editor on
\* desktop: the annotated text stands in place of the scope, the cursor at
\* the start of the scope, the menu open over the block
InitMenuOver(contexts, vals) ==
    \E c \in contexts, d \in CodecInputs(vals, MaxOps) :
      \E g \in {getDiffMarkdown(FALSE, d, FALSE)} :
        LET old == OldTextOf(d)
            new == NewTextOf(d)
            tws == g.textWithSuggestions
            start == Len(c.before)
            noteBefore == c.before \o old \o c.after
            noteAfter == c.before \o tws \o c.after
        IN /\ ~GuardEmpty(old)
           /\ ~GuardMarkup(old)
           /\ ~NothingToChange(new, old, tws, g.changeCount)
           /\ settings = Setting("openai", TRUE, TRUE, TRUE, FALSE)
           /\ activeFile = "A.md"
           /\ doc = [f \in Files |-> IF f = "A.md" THEN noteAfter ELSE <<"b">>]
           /\ docBefore = [f \in Files |-> IF f = "A.md" THEN noteBefore ELSE <<"b">>]
           /\ sel = [from |-> start, to |-> start, multi |-> FALSE]
           /\ pc = "done"
           /\ scope = c.scopeType
           /\ oldText = old
           /\ origin = [startOffset |-> start,
                        from |-> offsetToPos(noteBefore, start),
                        to |-> offsetToPos(noteBefore, start + Len(old)),
                        line |-> offsetToPos(noteBefore, start).line]
           /\ fileBefore = "A.md"
           /\ progress = FALSE
           /\ notices = {"suggestionsReady"}
           /\ requests = 1
           /\ response = [kind |-> "text", raw |-> new, atLimit |-> FALSE]
           /\ result = Returned(new, FALSE)
           /\ outcome = "applied"
           /\ menu = showSuggestionMenu(FALSE, tws, old, offsetToPos(noteBefore, start),
                                        offsetToPos(noteAfter, start + Len(tws)),
                                        c.scopeType)
           /\ fileChanged = FALSE
           /\ data = NoData
           /\ panel = NoPanel
           /\ tab = NoTab
           /\ diffIn = d
           /\ diff = d
           /\ isOverlength = FALSE
           /\ preserveTextInsideQuotes = FALSE
           /\ textWithSuggestions = tws
           /\ changeCount = g.changeCount
           /\ decoded = NoText
           /\ mode = "none"
           /\ cpc = "none"

InitMenu == InitMenuOver(MenuContexts, MenuVals)

\* editor.getRange(from, to)
getRange(text, from, to) == Slice(text, posToOffset(text, from), posToOffset(text, to))

\* where the editor leaves an offset of the cursor when [from, to) is
\* replaced by a text of length len
mapPos(from, to, len, pos) ==
    IF pos <= from THEN pos
    ELSE IF pos >= to THEN pos - (to - from) + len
    ELSE from

\* the scanner: the (1-based) positions at which the regions of a text start,
\* found in order from position i on; a marker that is never closed opens no
\* region
RECURSIVE RegionStartsFrom(_, _)
RegionStartsFrom(text, i) ==
    IF i > Len(text) THEN {}
    ELSE IF MarkerAt(text, i) = <<>> \/ ClosingOf(text, i) = 0
    THEN RegionStartsFrom(text, i + 1)
    ELSE {i} \cup RegionStartsFrom(text, ClosingOf(text, i) + 2)

\* the search wrapping around to the first region of the document
findNextCyclic(text, cursorOffset) ==
    LET all == RegionStartsFrom(text, 1)
        regions == {i \in all : i >= cursorOffset + 1}
    IN IF all = {} THEN 0
       ELSE IF regions = {} THEN CHOOSE i \in all : \A k \in all : i <= k
       ELSE CHOOSE i \in regions : \A k \in regions : i <= k

\* findNext: the (1-based) position of the first region that starts at or
\* after the cursor offset, 0 if there is none
findNext(text, cursorOffset) ==
    LET regions == {i \in RegionStartsFrom(text, 1) : i >= cursorOffset + 1}
    IN IF regions = {} THEN 0 ELSE CHOOSE i \in regions : \A k \in regions : i <= k

\* applyNext: the region at i resolved under the policy, every other
\* character as it was, the cursor right after the resolved text
applyNext(text, i, policy) ==
    LET j == ClosingOf(text, i)
        inner == SubSeq(text, i + 2, j - 1)
        kept == IF (MarkerAt(text, i) = HL) <=> (policy = "accept") THEN inner ELSE NoText
    IN [newText |-> SubSeq(text, 1, i - 1) \o kept \o From(text, j + 2),
        newCursorOffset |-> (i - 1) + Len(kept)]

\* acceptOrRejectNextSuggestion(editor, mode)
acceptOrRejectNextSuggestion(text, cursorOffset, md) ==
    IF findNext(text, cursorOffset) = 0
    THEN [newText |-> text, newCursorOffset |-> cursorOffset, found |-> FALSE]
    ELSE [newText |-> applyNext(text, findNext(text, cursorOffset), md).newText,
          newCursorOffset |-> applyNext(text, findNext(text, cursorOffset), md).newCursorOffset,
          found |-> TRUE]

\* what the menu's buttons leave alone
menuFrame == <<codecVars, pluginVars, activeFile, pc, scope, oldText, origin, fileBefore,
               progress, requests, response, result, outcome, docBefore, fileChanged>>

\* a click on an item closes the menu; replaceRange over the menu's positions
ReplaceScope(written) ==
    LET text == doc[activeFile]
        from == posToOffset(text, menu.scopeStartPos)
        to == posToOffset(text, menu.scopeEndPos)
    IN /\ doc' = [doc EXCEPT ![activeFile] = replaceRange(text, written, from, to)]
       /\ sel' = [from |-> mapPos(from, to, Len(written), sel.from),
                  to |-> mapPos(from, to, Len(written), sel.from), multi |-> FALSE]
       /\ menu' = NoMenu

\* "Accept All Suggestions"
AcceptAll ==
    /\ menu.shown
    /\ ReplaceScope(removeMarkup(menu.currentScopeTextWithMarkup, "accept"))
    /\ notices' = notices \cup {"allAccepted"}
    /\ UNCHANGED menuFrame

\* "Reject All Suggestions"
RejectAll ==
    /\ menu.shown
    /\ ReplaceScope(menu.originalUntouchedText)
    /\ notices' = notices \cup {"allRejected"}
    /\ UNCHANGED menuFrame

\* a menu that opens again after every click
reEvaluateAlways(text, shown) ==
    /\ menu' = showSuggestionMenu(FALSE, getRange(text, menu.scopeStartPos, menu.scopeEndPos),
                                  menu.originalUntouchedText, menu.scopeStartPos,
                                  menu.scopeEndPos, menu.scopeType)
    /\ notices' = notices \cup shown

\* reEvaluateAndShowMenu: the range between the menu's positions is read
\* again; with a marker in it the menu opens over that text, else a notice
reEvaluateAndShowMenu(text, shown) ==
    \E updatedScopeText \in {getRange(text, menu.scopeStartPos, menu.scopeEndPos)} :
        IF HasMarker(updatedScopeText)
        THEN /\ menu' = showSuggestionMenu(FALSE, updatedScopeText,
                                           menu.originalUntouchedText, menu.scopeStartPos,
                                           menu.scopeEndPos, menu.scopeType)
             /\ notices' = notices \cup shown
        ELSE /\ menu' = NoMenu
             /\ notices' = notices \cup shown \cup {"allHandled"}

\* "Accept Next Suggestion" / "Reject Next Suggestion"
NextSuggestion(md) ==
    /\ menu.shown
    /\ \E r \in {acceptOrRejectNextSuggestion(doc[activeFile], sel.from, md)} :
          /\ doc' = [doc EXCEPT ![activeFile] = r.newText]
          /\ sel' = [from |-> r.newCursorOffset, to |-> r.newCursorOffset, multi |-> FALSE]
          /\ reEvaluateAndShowMenu(r.newText, IF r.found THEN {} ELSE {"nothingToDo"})
    /\ UNCHANGED menuFrame

NextMenu ==
    \/ AcceptAll
    \/ RejectAll
    \/ \E md \in {"accept", "reject"} : NextSuggestion(md)

SpecMenu == InitMenu /\ [][NextMenu]_vars

----------------------------------------------------------------------------
(***************************************************************************)
(* Claims about the suggestion menu *)
(***************************************************************************)

\* the suggestion block of the scope in a text of the note: what stands
\* between the text before the scope and the text after it
AfterLen == Len(docBefore[activeFile]) - (origin.startOffset + Len(oldText))

BlockEnd(text) == IF Len(text) - AfterLen < origin.startOffset
                  THEN origin.startOffset ELSE Len(text) - AfterLen

Block(text) == Slice(text, origin.startOffset, BlockEnd(text))

\* the note with its block decoded under a policy
BlockDecoded(text, md) ==
    replaceRange(text, removeMarkup(Block(text), md), origin.startOffset, BlockEnd(text))

\* C17: in every state after suggestions were applied and any sequence of
\* Accept Next / Reject Next, Accept All sets the scope to the accept-decoding
\* of the scope's current annotated text and Reject All sets it to the
\* reject-decoding of the scope's current annotated text.
C17_ResolveAllDecodesCurrentText ==
    [][/\ AcceptAll => doc'[activeFile] = BlockDecoded(doc[activeFile], "accept")
       /\ RejectAll => doc'[activeFile] = BlockDecoded(doc[activeFile], "reject")]_vars


\* a step of one of the menu's buttons
MenuStep == AcceptAll \/ RejectAll \/ NextSuggestion("accept") \/ NextSuggestion("reject")

\* the text of the note that precedes the scope and the text that follows it
Preceding(text) == Slice(text, 0, origin.startOffset)

Following(text) ==
    IF Len(text) < AfterLen THEN text ELSE Slice(text, Len(text) - AfterLen, Len(text))

\* C18: every read and every write of the suggestion menu covers only the
\* characters of the suggestion block of the scope: the text the menu holds
\* as the scope's text after a re-evaluation is the block, and no button
\* changes the text of the note before the block or after it, also after the
\* block has shrunk through Accept Next / Reject Next.
C18_ScopeNeverWidened ==
    [][MenuStep =>
          /\ Preceding(doc'[activeFile]) = Preceding(doc[activeFile])
          /\ Following(doc'[activeFile]) = Following(doc[activeFile])
          /\ menu'.shown =>
                menu'.currentScopeTextWithMarkup = Block(doc'[activeFile])]_vars

\* what a button writes when it works on the content of the document at the
\* moment of the click: the range of the menu read then, decoded
WrittenFromCurrentContent(md) ==
    LET text == doc[activeFile]
        from == posToOffset(text, menu.scopeStartPos)
        to == posToOffset(text, menu.scopeEndPos)
    IN replaceRange(text, removeMarkup(getRange(text, menu.scopeStartPos, menu.scopeEndPos), md),
                    from, to)

\* C19: every accept/reject action derives the text it writes from the
\* content of the document at the moment of the action; none writes a text
\* computed from a copy of the scope that was captured before a mutation of
\* the document.
C19_NoStaleness ==
    [][/\ AcceptAll => doc'[activeFile] = WrittenFromCurrentContent("accept")
       /\ RejectAll => doc'[activeFile] = WrittenFromCurrentContent("reject")]_vars

----------------------------------------------------------------------------
(***************************************************************************)
(* Claims about the scope of proofreadDocument *)
(***************************************************************************)

\* the leading front-matter block of a note
MetadataBlock(note) == IF At(note, 1, FrontMatter) THEN FrontMatter ELSE NoText

\* C20: proofreadDocument hands only the body of the note, the text after the
\* leading front-matter block, to generateSuggestions and so to the provider;
\* once it has applied the suggestions, every character before the start of
\* the body is as it was.
C20_MetadataOutOfScope ==
    scope = "Document" =>
        /\ docBefore[fileBefore] = MetadataBlock(docBefore[fileBefore]) \o oldText
        /\ outcome = "applied" =>
              Slice(doc[fileBefore], 0, Len(MetadataBlock(docBefore[fileBefore])))
                  = MetadataBlock(docBefore[fileBefore])

\* a note with front matter got its suggestions through proofreadDocument
C20_Witness ==
    /\ scope = "Document"
    /\ outcome = "applied"
    /\ requests > 0
    /\ MetadataBlock(docBefore[fileBefore]) = FrontMatter
    /\ doc[fileBefore] # docBefore[fileBefore]

----------------------------------------------------------------------------
(***************************************************************************)
(* The commands "Accept next suggestion" and "Reject next suggestion"      *)
(***************************************************************************)

\* the part values of the notes the commands run on
NavVals == { <<"a">>, <<"b">>, <<SP, "c">> }

\* a note that holds the suggestions of an earlier proofreading, the cursor
\* anywhere in it; no proofreading is running and no menu is open
InitNavigate ==
    /\ settings = Setting("openai", TRUE, TRUE, TRUE, FALSE)
    /\ activeFile = "A.md"
    /\ \E d \in CodecInputs(NavVals, MaxOps) :
        \E g \in {getDiffMarkdown(FALSE, d, FALSE)} :
          /\ g.changeCount > 0
          /\ doc = [f \in Files |-> IF f = "A.md" THEN g.textWithSuggestions ELSE <<"b">>]
    /\ \E c \in 0..Len(doc["A.md"]) : sel = [from |-> c, to |-> c, multi |-> FALSE]
    /\ pc = "idle"
    /\ scope = "none"
    /\ oldText = NoText
    /\ origin = NoOrigin
    /\ fileBefore = "A.md"
    /\ progress = FALSE
    /\ notices = {}
    /\ requests = 0
    /\ response = NoResponse
    /\ result = NoResult
    /\ outcome = "none"
    /\ menu = NoMenu
    /\ docBefore = doc
    /\ fileChanged = FALSE
    /\ data = NoData
    /\ panel = NoPanel
    /\ tab = NoTab
    /\ diffIn = <<>>
    /\ diff = <<>>
    /\ isOverlength = FALSE
    /\ preserveTextInsideQuotes = FALSE
    /\ textWithSuggestions = NoText
    /\ changeCount = 0
    /\ decoded = NoText
    /\ mode = "none"
    /\ cpc = "none"

\* the editor commands accept-next-suggestion / reject-next-suggestion
NextSuggestionCommand(md) ==
    /\ \E r \in {acceptOrRejectNextSuggestion(doc[activeFile], sel.from, md)} :
          /\ doc' = [doc EXCEPT ![activeFile] = r.newText]
          /\ sel' = [from |-> r.newCursorOffset, to |-> r.newCursorOffset, multi |-> FALSE]
          /\ notices' = IF r.found THEN notices ELSE notices \cup {"nothingToDo"}
    /\ UNCHANGED <<menu, menuFrame>>

NextNavigate == \E md \in {"accept", "reject"} : NextSuggestionCommand(md)

SpecNavigate == InitNavigate /\ [][NextNavigate]_vars

(***************************************************************************)
(* Claims about the navigation *)
(***************************************************************************)

\* the regions of a text that start at or after a cursor offset
Ahead(text, cursorOffset) == {i \in RegionStartsFrom(text, 1) : i >= cursorOffset + 1}

\* C21: the forward search is terminal, not cyclic: accept/reject next takes
\* the first region that starts at or after the cursor offset and changes
\* nothing but that region; when no region starts there it reports that there
\* is nothing to do and changes nothing, so no region located before the
\* cursor is ever selected, however often the command is repeated.
C21_ForwardSearchTerminal ==
    [][\A md \in {"accept", "reject"} : NextSuggestionCommand(md) =>
          LET text == doc[activeFile]
              ahead == Ahead(text, sel.from)
          IN /\ Slice(doc'[activeFile], 0, sel.from) = Slice(text, 0, sel.from)
             /\ sel'.from >= sel.from
             /\ IF ahead = {}
                THEN doc' = doc /\ "nothingToDo" \in notices'
                ELSE LET first == CHOOSE i \in ahead : \A k \in ahead : i <= k
                         rest == From(text, ClosingOf(text, first) + 2)
                     IN /\ Slice(doc'[activeFile], 0, first - 1) = Slice(text, 0, first - 1)
                        /\ sel'.from \in {first - 1, ClosingOf(text, first) - 3}
                        /\ From(doc'[activeFile], sel'.from + 1) = rest]_vars

\* the command ran with regions left behind the cursor and none ahead
C21_Witness ==
    /\ "nothingToDo" \in notices
    /\ RegionStartsFrom(doc[activeFile], 1) # {}
    /\ doc # docBefore

----------------------------------------------------------------------------
(***************************************************************************)
(* The plugin's settings: loadSettings, saveSettings, the settings tab,    *)
(* and the context control panel                                           *)
(***************************************************************************)

\* the keys of MODEL_SPECS (settings.ts), the ids an LM Studio server lists,
\* and a model of an earlier version of the plugin
ModelSpecsKeys == {"gpt-4.1-nano", "gpt-4.1-mini", "gpt-4.1"}
LmStudioModelList == <<"qwen", "llama">>
LmStudioModels == {LmStudioModelList[i] : i \in 1..Len(LmStudioModelList)}
OutdatedModels == {"gpt-4o"}

SettingKeys == {"llmProvider", "openAiApiKey", "openAiModel", "openAiEndpoint"}

DEFAULT_SETTINGS ==
    [llmProvider |-> "openai", openAiApiKey |-> NoText,
     openAiModel |-> "gpt-4.1-nano", openAiEndpoint |-> NoText]

\* what the user types into a text field
TextInputs == {NoText, <<"k">>, <<SP, "u", SP>>}

\* what may be stored in data.json when the plugin starts: nothing, or some
\* or all of the settings of this or an earlier version
StoredSettings ==
    [llmProvider : {"openai", "lmstudio"}, openAiApiKey : {NoText, <<"k">>},
     openAiModel : ModelSpecsKeys \cup LmStudioModels \cup OutdatedModels,
     openAiEndpoint : {NoText, <<"u">>}]

PersistedData ==
    {NoData} \cup StoredSettings
        \cup {[k \in {"openAiModel"} |-> r[k]] : r \in StoredSettings}

\* Object.assign({}, DEFAULT_SETTINGS, await this.loadData())
Assigned(d) == [k \in SettingKeys |-> IF k \in DOMAIN d THEN d[k] ELSE DEFAULT_SETTINGS[k]]

\* the plugin object is constructed; onload has not run yet
InitSettings ==
    /\ settings = DEFAULT_SETTINGS
    /\ data \in PersistedData
    /\ panel = NoPanel
    /\ tab = NoTab
    /\ activeFile = "A.md"
    /\ doc = [f \in Files |-> NoText]
    /\ sel = [from |-> 0, to |-> 0, multi |-> FALSE]
    /\ pc = "idle"
    /\ scope = "none"
    /\ oldText = NoText
    /\ origin = NoOrigin
    /\ fileBefore = "A.md"
    /\ progress = FALSE
    /\ notices = {}
    /\ requests = 0
    /\ response = NoResponse
    /\ result = NoResult
    /\ outcome = "none"
    /\ menu = NoMenu
    /\ docBefore = doc
    /\ fileChanged = FALSE
    /\ diffIn = <<>>
    /\ diff = <<>>
    /\ isOverlength = FALSE
    /\ preserveTextInsideQuotes = FALSE
    /\ textWithSuggestions = NoText
    /\ changeCount = 0
    /\ decoded = NoText
    /\ mode = "none"
    /\ cpc = "none"

\* what the settings tab and the panel leave alone
settingsFrame == <<codecVars, activeFile, doc, sel, runVars>>

\* the check of the stored model left out
outdatedModelUnchecked(model) == FALSE

\* !Object.keys(MODEL_SPECS).includes(this.settings.openAiModel)
outdatedModel(model) == model \notin ModelSpecsKeys

\* loadSettings
LoadSettings ==
    /\ \E loaded \in {Assigned(data)} :
          IF outdatedModel(loaded.openAiModel)
          THEN /\ settings' = [loaded EXCEPT !.openAiModel = DEFAULT_SETTINGS.openAiModel]
               /\ data' = settings'
          ELSE /\ settings' = loaded
               /\ data' = data
    /\ UNCHANGED <<panel, tab, settingsFrame>>

\* ProofreaderSettingsMenu.display: the fields show the settings
Displayed(s) == [open |-> TRUE, apiKey |-> s.openAiApiKey, endpoint |-> s.openAiEndpoint]

Display ==
    /\ tab' = Displayed(settings)
    /\ UNCHANGED <<settings, data, panel, settingsFrame>>

\* a field's onChange: the setting is set, saveSettings writes the settings
ChangeSetting(key, value) ==
    /\ settings' = [settings EXCEPT ![key] = value]
    /\ data' = settings'

\* "LLM Provider": the tab is rendered again
ProviderChange ==
    /\ tab.open
    /\ \E v \in {"openai", "lmstudio"} : ChangeSetting("llmProvider", v)
    /\ tab' = Displayed(settings')
    /\ UNCHANGED <<panel, settingsFrame>>

\* "OpenAI API key"
ApiKeyChange ==
    /\ tab.open
    /\ \E v \in TextInputs :
          /\ ChangeSetting("openAiApiKey", trim(v))
          /\ tab' = [tab EXCEPT !.apiKey = v]
    /\ UNCHANGED <<panel, settingsFrame>>

\* "Model" of OpenAI
OpenAiModelChange ==
    /\ tab.open
    /\ settings.llmProvider = "openai"
    /\ \E v \in ModelSpecsKeys : ChangeSetting("openAiModel", v)
    /\ UNCHANGED <<panel, tab, settingsFrame>>

\* "Model" of LM Studio: the dropdown is filled from the server's list; a
\* configured model that is not in the list is replaced by the first entry
LmStudioModelsListed ==
    /\ tab.open
    /\ settings.llmProvider = "lmstudio"
    /\ settings.openAiModel \notin LmStudioModels
    /\ ChangeSetting("openAiModel", LmStudioModelList[1])
    /\ UNCHANGED <<panel, tab, settingsFrame>>

\* "Model" of LM Studio: the user selects an entry
LmStudioModelChange ==
    /\ tab.open
    /\ settings.llmProvider = "lmstudio"
    /\ \E v \in LmStudioModels : ChangeSetting("openAiModel", v)
    /\ UNCHANGED <<panel, tab, settingsFrame>>

\* "Advanced: URL endpoint"
EndpointChange(v) ==
    /\ tab.open
    /\ ChangeSetting("openAiApiKey", trim(v))
    /\ tab' = [tab EXCEPT !.endpoint = v]
    /\ UNCHANGED <<panel, settingsFrame>>

\* openAiRequest: where the request goes and the key it carries
OpenAiDefaultEndpoint == <<"https://api.openai.com/v1/responses">>

openAiCall(s) ==
    [url |-> IF s.openAiEndpoint # NoText THEN s.openAiEndpoint ELSE OpenAiDefaultEndpoint,
     authorization |-> s.openAiApiKey]

\* ContextControlPanel.onOpen / onClose: the components are made / dropped
PanelOpen ==
    /\ ~panel.open
    /\ panel' = [panel EXCEPT !.open = TRUE]
    /\ UNCHANGED <<settings, data, tab, settingsFrame>>

PanelClose ==
    /\ panel.open
    /\ panel' = [panel EXCEPT !.open = FALSE]
    /\ UNCHANGED <<settings, data, tab, settingsFrame>>

\* a toggle "Dynamic" that leaves the toggle "Full note" alone
DynamicToggleAlone ==
    /\ panel.open
    /\ \E value \in BOOLEAN : panel' = [panel EXCEPT !.useDynamicContext = value]
    /\ UNCHANGED <<settings, data, tab, settingsFrame>>

\* the toggle "Dynamic"
DynamicToggle ==
    /\ panel.open
    /\ \E value \in BOOLEAN :
          panel' = [panel EXCEPT !.useDynamicContext = value,
                                 !.useWholeNoteContext = IF value THEN FALSE ELSE @]
    /\ UNCHANGED <<settings, data, tab, settingsFrame>>

\* the toggle "Full note"
FullNoteToggle ==
    /\ panel.open
    /\ \E value \in BOOLEAN :
          panel' = [panel EXCEPT !.useWholeNoteContext = value,
                                 !.useDynamicContext = IF value THEN FALSE ELSE @]
    /\ UNCHANGED <<settings, data, tab, settingsFrame>>

\* the toggle "Custom"
CustomToggle ==
    /\ panel.open
    /\ \E value \in BOOLEAN : panel' = [panel EXCEPT !.useCustomContext = value]
    /\ UNCHANGED <<settings, data, tab, settingsFrame>>

NextSettings ==
    \/ LoadSettings
    \/ Display
    \/ ProviderChange
    \/ ApiKeyChange
    \/ OpenAiModelChange
    \/ LmStudioModelsListed
    \/ LmStudioModelChange
    \/ \E v \in TextInputs : EndpointChange(v)
    \/ PanelOpen
    \/ PanelClose
    \/ DynamicToggle
    \/ FullNoteToggle
    \/ CustomToggle

SpecSettings == InitSettings /\ [][NextSettings]_vars

(***************************************************************************)
(* Claims about the settings *)
(***************************************************************************)

\* C22: changing the field "Advanced: URL endpoint" sets
\* settings.openAiEndpoint to the trimmed input and leaves
\* settings.openAiApiKey as it was, so that the request goes on carrying the
\* API key entered in the API-key field.
C22_EndpointSettingFrame ==
    [][\A v \in TextInputs : EndpointChange(v) =>
          /\ settings'.openAiEndpoint = trim(v)
          /\ settings'.openAiApiKey = settings.openAiApiKey
          /\ openAiCall(settings').authorization = openAiCall(settings).authorization]_vars
----------------------------------------------------------------------------
(* Claims about the revision request *)

\* the scope text passed the two guards of generateSuggestions
PassedGuards == Entered /\ ~IsBlank(oldText) /\ ~HasMarker(oldText)

\* what the adapter of the provider named by the settings makes of a response
NamedAdapter(s, old, r) ==
    IF s.llmProvider = "openai" THEN openAiRequest(s, old, r)
    ELSE IF s.llmProvider = "lmstudio" THEN lmStudioRequest(s, old, r)
    ELSE geminiRequest(s, old, r)

\* C23 as stated: an invocation that passed the guards has sent exactly one
\* request when the provider is known and none when it is not.
C23_ExactlyOneRequest ==
    PassedGuards
        => requests = (IF settings.llmProvider \in KnownProviders THEN 1 ELSE 0)

\* C23: an invocation sends at most one request. One that passed the guards
\* has sent exactly one when the provider is known and the settings its
\* adapter needs are present, and none otherwise; the response is handled by
\* the adapter of the provider named by settings.llmProvider.
C23_OneRequestWhenConfigured ==
    /\ requests \in {0, 1}
    /\ PassedGuards
          => requests = (IF /\ settings.llmProvider \in KnownProviders
                            /\ AdapterGuard(settings) = "ok"
                         THEN 1 ELSE 0)
    /\ (pc = "done" /\ requests = 1)
          => result = NamedAdapter(settings, oldText, response).returns

\* LM Studio in reasoning mode got a reasoning block back and removed it
C23_Witness ==
    /\ pc = "done"
    /\ requests = 1
    /\ settings.llmProvider = "lmstudio"
    /\ settings.lmStudioReasoningEnabled
    /\ response.kind = "text"
    /\ response.raw = <<ThinkOpen, "a", ThinkClose>>
----------------------------------------------------------------------------
(***************************************************************************)
(* The proofread invocation with a user who keeps working in the note     *)
(* while the request is outstanding                                        *)
(***************************************************************************)

\* the characters the user types while a request is outstanding
MaxEdits == 1

\* one provider set up: the invocation gets as far as the request
InitEdit ==
    /\ Init
    /\ settings = Setting("openai", TRUE, TRUE, TRUE, FALSE)

\* the user types a character into the note while the request is outstanding;
\* the editor moves the selection along
UserTypes ==
    /\ pc = "awaiting"
    /\ Len(doc[activeFile]) - Len(docBefore[activeFile]) < MaxEdits
    /\ \E at \in 0..Len(doc[activeFile]) :
          /\ doc' = [doc EXCEPT ![activeFile] =
                        replaceRange(doc[activeFile], <<"x">>, at, at)]
          /\ sel' = [sel EXCEPT !.from = mapPos(at, at, 1, sel.from),
                                !.to = IF sel.to > at THEN sel.to + 1 ELSE sel.to]
    /\ UNCHANGED <<codecVars, pluginVars, activeFile, pc, scope, oldText, origin,
                   fileBefore, progress, notices, requests, response, result, outcome,
                   menu, docBefore, fileChanged>>

\* the user moves the cursor or selects something else while the request is
\* outstanding
SelectionChange ==
    /\ pc = "awaiting"
    /\ \E s \in Selections(doc[activeFile]) \cup
                  {[from |-> 0, to |-> 0, multi |-> FALSE]} :
          /\ s # sel
          /\ sel' = s
    /\ UNCHANGED <<codecVars, pluginVars, activeFile, doc, pc, scope, oldText, origin,
                   fileBefore, progress, notices, requests, response, result, outcome,
                   menu, docBefore, fileChanged>>

NextEdit ==
    \/ ProofreadDocument
    \/ ProofreadText
    \/ UserTypes
    \/ SelectionChange
    \/ ResponseArrives

SpecEdit == InitEdit /\ [][NextEdit]_vars

\* what the range holds that the command is about to replace: the range
\* captured before the request (document), the selection of the moment
\* (selection), the line with the captured number (paragraph)
TargetOfWrite ==
    CASE scope = "Document" -> getRange(doc[activeFile], origin.from, origin.to)
      [] scope = "Selection" -> Slice(doc[activeFile], sel.from, sel.to)
      [] OTHER -> getLine(doc[activeFile], origin.line)

\* C24: whenever an invocation writes its annotated text into the document,
\* the range it replaces holds at that moment exactly the oldText that was
\* sent for revision, whatever the user typed or selected in the meantime.
C24_ReplacesWhatWasSent ==
    [][(pc = "awaiting" /\ outcome' = "applied") => TargetOfWrite = oldText]_vars
----------------------------------------------------------------------------
(* Claims about the menu's loop *)

\* the scopes of the loop: a selection inside a line, a line among other
\* lines, the body of a note with front matter
LoopContexts ==
    { [scopeType |-> "Selection", before |-> <<"d", SP>>, after |-> <<SP, "d">>],
      [scopeType |-> "Paragraph", before |-> <<"d", NL>>, after |-> <<NL, "d">>],
      [scopeType |-> "Document", before |-> FrontMatter, after |-> NoText] }

InitLoop == InitMenuOver(LoopContexts, NavVals)

SpecLoop == InitLoop /\ [][NextMenu]_vars

\* a click on "Accept Next Suggestion" or "Reject Next Suggestion"
NextClick == NextSuggestion("accept") \/ NextSuggestion("reject")

\* the click found a region ahead of the cursor and resolved it
Resolves(md) == acceptOrRejectNextSuggestion(doc[activeFile], sel.from, md).found

\* C25: after each Accept Next or Reject Next click the menu is shown again if
\* and only if the text between the scope's start and end positions still
\* holds a marker; otherwise the "all suggestions handled" notice is shown and
\* the menu stays closed. A click that resolves a region makes the note
\* shorter, so clicks that each resolve a region cannot go on for ever.
C25_MenuLoop ==
    [][/\ NextClick =>
             /\ menu'.shown <=> HasMarker(getRange(doc'[activeFile], menu.scopeStartPos,
                                                   menu.scopeEndPos))
             /\ "allHandled" \in notices' <=> ~menu'.shown
             /\ menu'.shown => /\ menu'.scopeStartPos = menu.scopeStartPos
                               /\ menu'.scopeEndPos = menu.scopeEndPos
       /\ \A md \in {"accept", "reject"} :
             (NextSuggestion(md) /\ Resolves(md)) =>
                 Len(doc'[activeFile]) < Len(doc[activeFile])
       /\ ~menu.shown => ~menu'.shown]_vars

\* the last region of the scope was resolved by a click and the menu closed
C25_Witness ==
    /\ ~menu.shown
    /\ "allHandled" \in notices
    /\ "nothingToDo" \notin notices
    /\ doc # docBefore
----------------------------------------------------------------------------
(* Claims about the LM Studio adapter *)

\* C26: whatever lmStudioReasoningEnabled is, the newText that lmStudioRequest
\* returns has the same leading and the same trailing whitespace as oldText.
C26_LmStudioKeepsWhitespace ==
    (/\ pc = "done"
     /\ settings.llmProvider = "lmstudio"
     /\ requests = 1
     /\ result.status = "returned")
        => /\ leadingWhitespace(result.newText) = leadingWhitespace(oldText)
           /\ trailingWhitespace(result.newText) = trailingWhitespace(oldText)
----------------------------------------------------------------------------
(* Claims about the stored settings *)

\* C27: when loadSettings completes, whatever data.json held,
\* settings.openAiModel is a key of MODEL_SPECS; a stored model that is not a
\* key is replaced by the default model, the other settings are the stored
\* ones, and the corrected settings are saved.
C27_LoadedModelValid ==
    [][LoadSettings =>
          /\ settings'.openAiModel \in ModelSpecsKeys
          /\ Assigned(data).openAiModel \notin ModelSpecsKeys
                => /\ settings'.openAiModel = DEFAULT_SETTINGS.openAiModel
                   /\ \A k \in SettingKeys \ {"openAiModel"} :
                         settings'[k] = Assigned(data)[k]
                   /\ data' = settings'
          /\ Assigned(data).openAiModel \in ModelSpecsKeys
                => settings' = Assigned(data)]_vars

\* the stored settings of an LM Studio user, loaded and saved again with the
\* default model
C27_Witness ==
    /\ data = settings
    /\ settings.llmProvider = "lmstudio"
    /\ settings.openAiModel = DEFAULT_SETTINGS.openAiModel
    /\ settings.openAiEndpoint = <<"u">>
    /\ ~tab.open

\* C28: a model chosen in the LM Studio model dropdown and saved is still the
\* configured model after the settings are loaded again.
C28_LmStudioModelPersists ==
    [][(/\ LoadSettings
        /\ data = settings
        /\ settings.llmProvider = "lmstudio"
        /\ settings.openAiModel \in LmStudioModels)
          => settings'.openAiModel = settings.openAiModel]_vars
----------------------------------------------------------------------------
(* Claims about the change count *)

\* the number of Addition and Removal regions of an annotated text
RegionCount(t) == Cardinality(RegionStartsFrom(t, 1))

\* C29: the changeCount that getDiffMarkdown returns is a whole number, the
\* number of Addition and Removal regions of textWithSuggestions, for both
\* values of preserveTextInsideQuotes, and it is 0 exactly when
\* textWithSuggestions holds no marker. (changeCount counts the markers: the
\* value returned is half of it.)
C29_ChangeCountMatchesRegions ==
    cpc # "input" =>
        /\ changeCount = 2 * RegionCount(textWithSuggestions)
        /\ changeCount = 0 <=> ~HasMarker(textWithSuggestions)
----------------------------------------------------------------------------
(* Claims about the context control panel *)

\* C30: after any sequence of toggle changes in the context control panel,
\* useDynamicContext and useWholeNoteContext are never both true: turning
\* one of them on turns the other off, and the toggle "Custom" changes
\* neither of them.
C30_ContextModesExclusive ==
    [][/\ ~(panel.useDynamicContext /\ panel.useWholeNoteContext)
       /\ ~(panel'.useDynamicContext /\ panel'.useWholeNoteContext)
       /\ (DynamicToggle /\ panel'.useDynamicContext) => ~panel'.useWholeNoteContext
       /\ (FullNoteToggle /\ panel'.useWholeNoteContext) => ~panel'.useDynamicContext
       /\ CustomToggle => /\ panel'.useDynamicContext = panel.useDynamicContext
                          /\ panel'.useWholeNoteContext = panel.useWholeNoteContext]_vars

\* "Full note" is on with "Custom" on beside it, "Dynamic" is off
C30_Witness ==
    /\ panel.open
    /\ panel.useWholeNoteContext
    /\ panel.useCustomContext
    /\ ~panel.useDynamicContext

====
